---- MODULE Spec2Model ----
(***************************************************************************)
(* Verification model of the VirtualC64 cartridge bank mapper              *)
(* (src/C64/Cartridge.cpp): chip slots, bank-in / bank-out of chips into   *)
(* the rom window, and the snapshot format; and of the two VIA 6522 chips  *)
(* of the floppy drive (src/C64/VIA6522.cpp): the per-cycle execute() with *)
(* its delay/feed pipeline, the two timers, the interrupt registers, the   *)
(* register accesses peek / read / poke and the CA1 / CB1 pins.            *)
(*                                                                         *)
(* The cartridge works on a 16-bit address space (uint16_t), 4KB blocks    *)
(* (address >> 12), a ROM window covering the upper half of the address    *)
(* space (0x8000..0xFFFF) and 64 chip slots.  The model keeps that         *)
(* geometry but scales it: AddrBits stands for 16, BlockShift for 12 and   *)
(* NumSlots for 64, and every address constant of the code is derived      *)
(* from them exactly as in the source (0x8000 = 2^(16-1), 0xFFFF = 2^16-1, *)
(* sizeof(rom) = 0x8000, sizeof(blendedIn) = 2^(16-12) = 16).              *)
(*                                                                         *)
(* The VIA registers keep their 8 bits.  The two 16-bit timers are scaled: *)
(* a counter of Timer1Bits (Timer2Bits) bits has a high-order part of one  *)
(* bit and a low-order part of the remaining bits, and wraps as the        *)
(* uint16_t of the source does.  The delay and feed words are sets of the  *)
(* named pipeline bits; the shift of execute() moves a bit to the next     *)
(* stage of its pipeline.                                                  *)
(***************************************************************************)
EXTENDS Integers, Sequences, FiniteSets, TLC

\* ------------------------------------------------------------------ bounds
\* width of an address (uint16_t in the source: 16)
AddrBits == 4
\* block granularity of blendedIn (">> 12" in the source)
BlockShift == 1
\* number of chip slots (chip[64], chipStartAddress[64], chipSize[64] in the
\* source: 64)
NumSlots == 3
\* number of loadChip calls in one run
MaxLoads == 2
\* width of VIA timer 1 (uint16_t t1 in the source: 16)
Timer1Bits == 4
\* width of VIA timer 2 (uint16_t t2 in the source: 16)
Timer2Bits == 2
\* number of execute() calls per chip in the runs that exercise the
\* interrupt line and the register file
MaxCycles == 2

\* --------------------------------------------------------------- geometry
Pow2(n) == 2 ^ n
\* 0x10000: uint16_t arithmetic is modulo this
AddrSpace == Pow2(AddrBits)
\* 0xFFFF
AddrMax == AddrSpace - 1
\* 0x8000
RomBase == Pow2(AddrBits - 1)
\* sizeof(rom): uint8_t rom[0x8000]
RomSize == Pow2(AddrBits - 1)
\* 4096
BlockSize == Pow2(BlockShift)
\* sizeof(blendedIn): one flag per block of the address space
NumBlocks == Pow2(AddrBits - BlockShift)
\* lastBlendedIn when no chip has been banked in
NoChip == 255

Slots == 0 .. (NumSlots - 1)
Blocks == 0 .. (NumBlocks - 1)
RomIdx == 0 .. (RomSize - 1)

\* uint16_t truncation and x >> BlockShift
U16(x) == x % AddrSpace
Shr(x) == x \div BlockSize

\* an empty slot: chip[i] == NULL
NULL == [null |-> TRUE, bytes |-> << >>]
Buf(bytes) == [null |-> FALSE, bytes |-> bytes]

VARIABLES
    gameLine, exromLine,
    chip, chipStartAddress, chipSize,
    rom, blendedIn, lastBlendedIn,
    buffer,     \* the snapshot buffer handed to saveToBuffer / loadFromBuffer
    fault,      \* "none", or the assertion / memory fault that ended the run
    loads,      \* number of loadChip calls so far
    saved,      \* the cartridge state the bytes in buffer were written from
    last,       \* the call that produced this state (observation only)
    did,        \* what that call did to rom and blendedIn (observation only)
    via,        \* the two VIA chips of the drive: via[1] is VIA1, via[2] is VIA2
    irqLine,    \* the IRQ line of the drive CPU: the sources pulling it down
    vlast,      \* the VIA call that produced this state (observation only)
    hist        \* per chip, what happened since its timers were loaded
                \* (observation only)

cartState == <<gameLine, exromLine, chip, chipStartAddress, chipSize,
               rom, blendedIn, lastBlendedIn>>
cartVars == <<gameLine, exromLine, chip, chipStartAddress, chipSize,
              rom, blendedIn, lastBlendedIn, buffer, fault, loads, saved, last, did>>
viaVars == <<via, irqLine, vlast, hist>>
vars == <<cartVars, viaVars>>

\* ----------------------------------------------------------- observation
\* op: the call; nr: its chip index; start, size: its arguments (loadChip) or
\* the chip's placement (bankIn, bankOut); used: the number of bytes a
\* snapshot call advanced the buffer pointer by; follows: the call is a
\* bankIn or bankOut and the call before it was bankIn on the same chip.
Call(op, nr, start, size, used) ==
    [op |-> op, nr |-> nr, start |-> start, size |-> size, used |-> used,
     follows |-> op \in {"bankIn", "bankOut"} /\ last.op = "bankIn" /\ last.nr = nr]

\* copied: the call executed the memcpy into rom; wrote: the blendedIn
\* indices the call assigned to
Did(copied, wrote) == [copied |-> copied, wrote |-> wrote]
Nothing == Did(FALSE, {})

\* ================================================================ VIA 6522
\* The drive holds two chips of class VIA6522: VIA1 (serial bus) and VIA2
\* (drive mechanics).  They share execute(), the timers and most of
\* peek / poke, and differ in the port logic.
VIAs == { 1, 2 }

\* ---------------------------------------------------------- bytes and bits
\* uint8_t arithmetic: x & y, x | y, ~x
RECURSIVE AND8n(_, _, _)
AND8n(x, y, n) ==
    IF n = 0 THEN 0
    ELSE (x % 2) * (y % 2) + 2 * AND8n(x \div 2, y \div 2, n - 1)
AND8(x, y) == AND8n(x % 256, y % 256, 8)
OR8(x, y) == (x % 256) + (y % 256) - AND8(x, y)
NOT8(x) == 255 - (x % 256)
GET_BIT(x, nr) == ((x \div Pow2(nr)) % 2) = 1
SET_BIT(x, nr) == IF GET_BIT(x, nr) THEN x ELSE x + Pow2(nr)
CLR_BIT(x, nr) == IF GET_BIT(x, nr) THEN x - Pow2(nr) ELSE x

\* A timer is a uint16_t made of a high-order and a low-order byte.  The
\* model keeps the two halves and scales the counter to a width of bits
\* bits (Timer1Bits for t1 and its latches, Timer2Bits for t2 and its
\* latch): the high-order half is the top bit, the low-order half the bits
\* below it.
LoRange(bits) == Pow2(bits - 1)
HiRange == 2
LoOf(bits, value) == value % LoRange(bits)
HiOf(value) == value % HiRange
\* HI_LO(hi, lo), LO_BYTE(x), HI_BYTE(x) and "t--" on a timer
HI_LO(bits, hi, lo) == HiOf(hi) * LoRange(bits) + LoOf(bits, lo)
LO_BYTE(bits, x) == x % LoRange(bits)
HI_BYTE(bits, x) == (x \div LoRange(bits)) % HiRange
Dec16(bits, x) == (x + Pow2(bits) - 1) % Pow2(bits)

\* ------------------------------------------------- the delay / feed pipeline
\* delay and feed are bit masks of named request bits; the digit of a name
\* is the stage of the request, and "delay << 1" moves every request to its
\* next stage.  A mask is modelled as the set of the names of its 1 bits.
VIACountA0 == "CountA0"
VIACountA1 == "CountA1"
VIACountB0 == "CountB0"
VIACountB1 == "CountB1"
VIAReloadA0 == "ReloadA0"
VIAReloadA1 == "ReloadA1"
VIAReloadA2 == "ReloadA2"
VIAPostOneShotA0 == "PostOneShotA0"
VIAPostOneShotB0 == "PostOneShotB0"
VIAInterrupt0 == "Interrupt0"
VIAInterrupt1 == "Interrupt1"
VIASetCA2out0 == "SetCA2out0"
VIASetCA2out1 == "SetCA2out1"
VIAClearCA2out0 == "ClearCA2out0"
VIAClearCA2out1 == "ClearCA2out1"
VIASetCB2out0 == "SetCB2out0"
VIASetCB2out1 == "SetCB2out1"
VIAClearCB2out0 == "ClearCB2out0"
VIAClearCB2out1 == "ClearCB2out1"

\* the stage a request moves to; a request in its last stage is shifted out
NextStage ==
    (VIACountA0 :> VIACountA1) @@ (VIACountB0 :> VIACountB1) @@
    (VIAReloadA0 :> VIAReloadA1) @@ (VIAReloadA1 :> VIAReloadA2) @@
    (VIAInterrupt0 :> VIAInterrupt1) @@
    (VIASetCA2out0 :> VIASetCA2out1) @@ (VIAClearCA2out0 :> VIAClearCA2out1) @@
    (VIASetCB2out0 :> VIASetCB2out1) @@ (VIAClearCB2out0 :> VIAClearCB2out1)
\* the bits "& VIAClearBits" keeps: every bit but the first stages
VIAClearBits ==
    { VIACountA1, VIACountB1, VIAReloadA1, VIAReloadA2, VIAInterrupt1,
      VIASetCA2out1, VIAClearCA2out1, VIASetCB2out1, VIAClearCB2out1 }
\* delay << 1
ShiftLeft(mask) == { NextStage[b] : b \in mask \cap DOMAIN NextStage }

\* CPU::VIA and CPU::ATN: the tags of the sources of the drive CPU's IRQ line
SrcVIA == "VIA"
SrcATN == "ATN"
\* CPU::pullDownIrqLine(source), CPU::releaseIrqLine(source)
pullDownIrqLine(line, source) == line \cup { source }
releaseIrqLine(line, source) == line \ { source }
\* the calls a VIA makes on the IRQ line, as they appear in a call record
PullVIA == "pullDownIrqLine(VIA)"
ReleaseVIA == "releaseIrqLine(VIA)"
ReleaseATN == "releaseIrqLine(ATN)"
\* the IRQ line after the calls of a call record, made in their order
RECURSIVE LineAfter(_, _)
LineAfter(line, calls) ==
    IF calls = << >> THEN line
    ELSE LET c == Head(calls)
             l == IF c = PullVIA THEN pullDownIrqLine(line, SrcVIA)
                  ELSE IF c = ReleaseVIA THEN releaseIrqLine(line, SrcVIA)
                  ELSE IF c = ReleaseATN THEN releaseIrqLine(line, SrcATN)
                  ELSE line
         IN  LineAfter(l, Tail(calls))

\* ------------------------------------------------------------------- reset
\* VirtualComponent::reset() clears every snapshot item; VIA6522::reset()
\* then presets the timers and their latches to 0x01AA and feeds the two
\* count-enable requests.
ViaReset ==
    [ pa |-> 0, ca1 |-> FALSE, ca2_out |-> FALSE,
      pb |-> 0, cb1 |-> FALSE, cb2_out |-> FALSE,
      ddra |-> 0, ddrb |-> 0, ora |-> 0, orb |-> 0, ira |-> 0, irb |-> 0,
      t1 |-> HI_LO(Timer1Bits, 1, 170), t2 |-> HI_LO(Timer2Bits, 1, 170),
      t1_latch_lo |-> LoOf(Timer1Bits, 170), t1_latch_hi |-> HiOf(1),
      t2_latch_lo |-> LoOf(Timer2Bits, 170),
      pb7toggle |-> FALSE, pb7timerOut |-> FALSE,
      pcr |-> 0, acr |-> 0, ier |-> 0, ifr |-> 0, sr |-> 0,
      delay |-> { }, feed |-> { VIACountA0, VIACountB0 } ]

\* ------------------------------------------------------------- observation
\* the VIA call that produced the state: chip, operation, register, written
\* value, returned value, and the calls it made on its collaborators
VCall(id, op, addr, value, ret, calls) ==
    [id |-> id, op |-> op, addr |-> addr, value |-> value, ret |-> ret,
     calls |-> calls]

\* What happened on a chip since a timer was loaded by a write of its
\* high-order counter (register 0x5 for T1, 0x9 for T2).  kind: "none"
\* before the first load; otherwise the mode the timer was loaded in, as the
\* ACR bit of the timer says (bit 6 for T1: "oneshot" or "free"; bit 5 for
\* T2: "timed" or "pulse"); the record returns to NoLoad when an execute()
\* finds the other mode.  left: the execute() calls still missing to n + 1,
\* n being the loaded value; the T1 record returns to NoLoad when another
\* call is made on the chip before these n + 1 execute() calls are over.  zeros: the execute() calls since the load that
\* found the counter at zero (counted for "free" and "timed").  fires: the
\* times the IFR bit of the timer was set since the load.  toggles: the
\* times pb7toggle was inverted since the load.  The three are counted up
\* to 2.
NoLoad == [kind |-> "none", left |-> 0, zeros |-> 0, fires |-> 0, toggles |-> 0]
Loaded(kind, n) ==
    [kind |-> kind, left |-> n + 1, zeros |-> 0, fires |-> 0, toggles |-> 0]
Max(a, b) == IF a > b THEN a ELSE b
Count(n, event) == IF event THEN (IF n < 2 THEN n + 1 ELSE 2) ELSE n
T1Kind(s) == IF GET_BIT(s.acr, 6) THEN "free" ELSE "oneshot"
T2Kind(s) == IF GET_BIT(s.acr, 5) THEN "pulse" ELSE "timed"
\* A call as an entry of a script.
Step(op, addr, value) == [op |-> op, addr |-> addr, value |-> value]
\* The scenario "poke ACR = 0x00, poke T1 low latch = 0x05, poke T1 high
\* byte = 0x00, six execute()" on a chip that has just been reset.
Scenario ==
    << Step("poke", 11, 0), Step("poke", 4, 5), Step("poke", 5, 0),
       Step("execute", 0, 0), Step("execute", 0, 0), Step("execute", 0, 0),
       Step("execute", 0, 0), Step("execute", 0, 0), Step("execute", 0, 0) >>
\* the position in the scenario after one more call: pos calls of it have
\* been made and nothing else; OffScript once another call was made
OffScript == 0 - 1
Follow(pos, call) ==
    IF pos >= 0 /\ pos < Len(Scenario) /\ Scenario[pos + 1] = call
    THEN pos + 1 ELSE OffScript
\* Per chip: t1, t2 as above; cycles: the execute() calls of the chip
\* (counted up to MaxCycles); holds: the chip pulled the IRQ line down and
\* has not released it since; cond: the last execute() of the chip found
\* "ifr & ier" to be non-zero; script: the position in the scenario.
HistReset == [t1 |-> NoLoad, t2 |-> NoLoad, cycles |-> 0, holds |-> FALSE,
              cond |-> FALSE, script |-> 0]
Min(a, b) == IF a < b THEN a ELSE b

ViaInit ==
    /\ via = [v \in VIAs |-> ViaReset]
    /\ irqLine = { }
    /\ vlast = VCall(0, "reset", 0, 0, 0, << >>)
    /\ hist = [v \in VIAs |-> HistReset]

\* A chip as a snapshot hands it back: the snapshot items of the
\* constructor hold what was saved, here a chip just reset or one saved
\* with the CA2, CA1, CB2 and CB1 flags standing and a byte latched in the
\* port A input register.  Nothing else in the code sets the CA2 and CB2
\* flags or the input register (setCA2 and setCB2 are empty).
ViaRestored ==
    { ViaReset, [ViaReset EXCEPT !.ifr = 27, !.ira = 165] }

\* ---------------------------------------------------------- constructor
CartFresh ==
    /\ gameLine = TRUE
    /\ exromLine = TRUE
    /\ rom = [a \in RomIdx |-> 0]
    /\ blendedIn = [b \in Blocks |-> 0]
    /\ lastBlendedIn = NoChip
    /\ chip = [i \in Slots |-> NULL]
    /\ chipStartAddress = [i \in Slots |-> 0]
    /\ chipSize = [i \in Slots |-> 0]
    /\ buffer = << >>
    /\ fault = "none"
    /\ loads = 0
    /\ saved = << >>
    /\ last = [op |-> "new", nr |-> 0, start |-> 0, size |-> 0, used |-> 0,
               follows |-> FALSE]
    /\ did = Nothing

CartInit == CartFresh /\ ViaInit

\* the machine with its chips restored from a snapshot
RestoredInit ==
    /\ CartFresh
    /\ via \in [VIAs -> ViaRestored]
    /\ irqLine = { }
    /\ vlast = VCall(0, "reset", 0, 0, 0, << >>)
    /\ hist = [v \in VIAs |-> HistReset]

\* -------------------------------------------------------------- loadChip
\* the chip indices the callers use: the first and the last slot
ChipIndices == { 0, NumSlots - 1 }

\* The chip packets a CRT container can hand to loadChip: a too-low start,
\* an empty chip, block-aligned and unaligned chips, sizes that are and
\* are not a multiple of the block size, and the two sizes around the upper
\* limit of the address space.
ChipPlacements ==
    { <<RomBase - 1, BlockSize>>,
      <<RomBase, 0>>,
      <<RomBase, BlockSize>>,
      <<RomBase, BlockSize + 1>>,
      <<RomBase, 2 * BlockSize + 1>>,
      <<RomBase + 1, BlockSize>>,
      <<RomBase + BlockSize, BlockSize>>,
      <<AddrMax - BlockSize + 1, BlockSize - 1>>,
      <<AddrMax - BlockSize + 1, BlockSize>> }

\* the bytes of the packet delivered by the n-th loadChip call
ChipData(n, size) == [k \in 1 .. size |-> (16 * n + k - 1) % 256]

\* variants of the two range checks: the upper check missing, and the upper
\* check off by one
loadChipAccepts_NoUpperCheck(start, size) ==
    ~ (start < RomBase)
loadChipAccepts_OffByOne(start, size) ==
    ~ (start < RomBase) /\ ~ (AddrMax - start <= size)
loadChipAccepts_NoLowerCheck(start, size) ==
    ~ (AddrMax - start < size)

\* "if (start < 0x8000) return;  if (0xFFFF - start < size) return;"
loadChipAccepts(start, size) ==
    ~ (start < RomBase) /\ ~ (AddrMax - start < size)

\* malloc(size): the set of outcomes, TRUE for a non-null pointer.  Memory
\* exhaustion is outside the model, and the allocators the program is built
\* against return a non-null pointer for a request of 0 bytes as well.
malloc(size) == { TRUE }

LoadChip(nr, start, size, data) ==
    /\ fault = "none"
    /\ loads < MaxLoads
    /\ loads' = loads + 1
    /\ IF ~ loadChipAccepts(start, size)
       THEN UNCHANGED <<chip, chipStartAddress, chipSize>>
       ELSE \E ok \in malloc(size) :
              IF ~ ok
              THEN /\ chip' = [chip EXCEPT ![nr] = NULL]
                   /\ UNCHANGED <<chipStartAddress, chipSize>>
              ELSE /\ chip' = [chip EXCEPT ![nr] = Buf(SubSeq(data, 1, size))]
                   /\ chipStartAddress' = [chipStartAddress EXCEPT ![nr] = start]
                   /\ chipSize' = [chipSize EXCEPT ![nr] = size]
    /\ UNCHANGED <<gameLine, exromLine, rom, blendedIn, lastBlendedIn, buffer, saved, fault>>
    /\ last' = Call("loadChip", nr, start, size, 0)
    /\ did' = Nothing
    /\ UNCHANGED viaVars

\* ------------------------------------------------------- bankIn, bankOut
\* "for (unsigned i = start >> 12; i < end >> 12; i++)"
BlockRange(start, end) == Shr(start) .. (Shr(end) - 1)

\* variant: the bytes of dst outside the copied range are zeroed
memcpy_ClearsRest(dst, off, src, n) ==
    [a \in DOMAIN dst |-> IF off <= a /\ a < off + n THEN src[a - off + 1] ELSE 0]

\* memcpy(rom + start - 0x8000, chip[nr], size)
memcpy(dst, off, src, n) ==
    [a \in DOMAIN dst |-> IF off <= a /\ a < off + n THEN src[a - off + 1] ELSE dst[a]]

\* the assignments a loop "blendedIn[i] = v" makes over a block range
setBlocks(flags, range, v) ==
    [b \in DOMAIN flags |-> IF b \in range THEN v ELSE flags[b]]

\* variant: bankIn without the "nr == lastBlendedIn" fast path
bankIn_AlwaysCopies(nr) ==
    LET start == chipStartAddress[nr]
        size  == chipSize[nr]
        end   == U16(start + size)
    IN  /\ rom' = memcpy(rom, start - RomBase, chip[nr].bytes, size)
        /\ blendedIn' = setBlocks(blendedIn, BlockRange(start, end), 1)
        /\ lastBlendedIn' = nr
        /\ UNCHANGED fault
        /\ did' = Did(TRUE, BlockRange(start, end))

\* The body of bankIn(nr), called with chip[nr] != NULL.  A failing
\* "assert(0xFFFF - start >= size)" ends the run (fault "assert"); a memcpy
\* that would leave the rom array is undefined behaviour and ends it as
\* well (fault "memory").
bankIn(nr) ==
    LET start == chipStartAddress[nr]
        size  == chipSize[nr]
        end   == U16(start + size)
    IN  IF nr = lastBlendedIn
        THEN /\ UNCHANGED <<rom, blendedIn, lastBlendedIn, fault>>
             /\ did' = Nothing
        ELSE IF ~ (AddrMax - start >= size)
        THEN /\ fault' = "assert"
             /\ UNCHANGED <<rom, blendedIn, lastBlendedIn>>
             /\ did' = Nothing
        ELSE IF start < RomBase \/ start - RomBase + size > RomSize
        THEN /\ fault' = "memory"
             /\ UNCHANGED <<rom, blendedIn, lastBlendedIn>>
             /\ did' = Nothing
        ELSE /\ rom' = memcpy(rom, start - RomBase, chip[nr].bytes, size)
             /\ blendedIn' = setBlocks(blendedIn, BlockRange(start, end), 1)
             /\ lastBlendedIn' = nr
             /\ UNCHANGED fault
             /\ did' = Did(TRUE, BlockRange(start, end))

\* "assert(nr < 64); assert(chip[nr] != NULL);": callers bank in populated
\* chips only
BankIn(nr) ==
    /\ fault = "none"
    /\ ~ chip[nr].null
    /\ bankIn(nr)
    /\ UNCHANGED <<gameLine, exromLine, chip, chipStartAddress, chipSize, buffer, saved, loads>>
    /\ last' = Call("bankIn", nr, chipStartAddress[nr], chipSize[nr], 0)
    /\ UNCHANGED viaVars

\* variant: bankOut also forgets which chip was banked in last
bankOut_ResetsLast(nr) ==
    LET start == chipStartAddress[nr]
        size  == chipSize[nr]
        end   == U16(start + size)
    IN  /\ blendedIn' = setBlocks(blendedIn, BlockRange(start, end), 0)
        /\ lastBlendedIn' = NoChip
        /\ UNCHANGED <<rom, fault>>
        /\ did' = Did(FALSE, BlockRange(start, end))

\* the body of bankOut(nr), called with chip[nr] != NULL
bankOut(nr) ==
    LET start == chipStartAddress[nr]
        size  == chipSize[nr]
        end   == U16(start + size)
    IN  IF ~ (AddrMax - start >= size)
        THEN /\ fault' = "assert"
             /\ UNCHANGED <<rom, blendedIn, lastBlendedIn>>
             /\ did' = Nothing
        ELSE /\ blendedIn' = setBlocks(blendedIn, BlockRange(start, end), 0)
             /\ UNCHANGED <<rom, lastBlendedIn, fault>>
             /\ did' = Did(FALSE, BlockRange(start, end))

\* "assert(nr < 64); assert(chip[nr] != NULL);"
BankOut(nr) ==
    /\ fault = "none"
    /\ ~ chip[nr].null
    /\ bankOut(nr)
    /\ UNCHANGED <<gameLine, exromLine, chip, chipStartAddress, chipSize, buffer, saved, loads>>
    /\ last' = Call("bankOut", nr, chipStartAddress[nr], chipSize[nr], 0)
    /\ UNCHANGED viaVars

\* -------------------------------------------------------- powerup, lines
\* "if (chip[0]) bankIn(0);" followed by the two expansion port notifications
Powerup ==
    /\ fault = "none"
    /\ IF ~ chip[0].null
       THEN bankIn(0)
       ELSE UNCHANGED <<rom, blendedIn, lastBlendedIn, fault>> /\ did' = Nothing
    /\ UNCHANGED <<gameLine, exromLine, chip, chipStartAddress, chipSize, buffer, saved, loads>>
    /\ last' = Call("powerup", 0, 0, 0, 0)
    /\ UNCHANGED viaVars

SetGameLine(value) ==
    /\ fault = "none"
    /\ gameLine' = value
    /\ UNCHANGED <<exromLine, chip, chipStartAddress, chipSize, rom, blendedIn,
                   lastBlendedIn, buffer, saved, fault, loads>>
    /\ last' = Call("setGameLine", 0, 0, 0, 0)
    /\ did' = Nothing
    /\ UNCHANGED viaVars

SetExromLine(value) ==
    /\ fault = "none"
    /\ exromLine' = value
    /\ UNCHANGED <<gameLine, chip, chipStartAddress, chipSize, rom, blendedIn,
                   lastBlendedIn, buffer, saved, fault, loads>>
    /\ last' = Call("setExromLine", 0, 0, 0, 0)
    /\ did' = Nothing
    /\ UNCHANGED viaVars

\* ------------------------------------------------------------ snapshots
\* Byte-level helpers of the snapshot format: fixed-width fields, 16-bit
\* values in two bytes, low byte first.  A buffer is a sequence of bytes and
\* a read position is an index into it.
write8(v) == << v % 256 >>
write16(v) == << v % 256, (v \div 256) % 256 >>
writeBlock(bytes, n) == SubSeq(bytes, 1, n)
read8(buf, pos) == buf[pos]
read16(buf, pos) == buf[pos] + 256 * buf[pos + 1]
readBlock(buf, pos, n) == SubSeq(buf, pos, pos + n - 1)

RECURSIVE SumSizes(_, _)
SumSizes(sizes, i) ==
    IF i = NumSlots THEN 0 ELSE (4 + sizes[i]) + SumSizes(sizes, i + 1)

\* variant: the trailing lastBlendedIn byte is not counted
stateSize_NoTrailer(sizes) == 2 + SumSizes(sizes, 0) + RomSize + NumBlocks

\* stateSize() of a cartridge whose chipSize array is sizes
stateSize(sizes) == 2 + SumSizes(sizes, 0) + RomSize + NumBlocks + 1

\* the loop of saveToBuffer over the slots i .. 63
RECURSIVE saveChips(_)
saveChips(i) ==
    IF i = NumSlots THEN << >>
    ELSE write16(chipStartAddress[i]) \o write16(chipSize[i])
         \o (IF chipSize[i] > 0 THEN writeBlock(chip[i].bytes, chipSize[i]) ELSE << >>)
         \o saveChips(i + 1)

\* the bytes saveToBuffer writes, starting at *buffer
saveToBuffer ==
    write8(IF gameLine THEN 1 ELSE 0) \o write8(IF exromLine THEN 1 ELSE 0)
    \o saveChips(0)
    \o writeBlock([a \in 1 .. RomSize |-> rom[a - 1]], RomSize)
    \o writeBlock([b \in 1 .. NumBlocks |-> blendedIn[b - 1]], NumBlocks)
    \o write8(lastBlendedIn)

\* saveToBuffer and its closing "assert(*buffer - old == stateSize())";
\* writeBlock from a NULL chip of positive size would read through a null
\* pointer (fault "memory")
SaveToBuffer ==
    /\ fault = "none"
    /\ IF \E i \in Slots : chipSize[i] > 0 /\ chip[i].null
       THEN /\ fault' = "memory"
            /\ UNCHANGED <<buffer, saved>>
            /\ last' = Call("saveToBuffer", 0, 0, 0, 0)
       ELSE LET bytes == saveToBuffer
            IN  /\ buffer' = bytes
                /\ saved' = cartState
                /\ fault' = IF Len(bytes) = stateSize(chipSize) THEN "none" ELSE "assert"
                /\ last' = Call("saveToBuffer", 0, 0, 0, Len(bytes))
    /\ did' = Nothing
    /\ UNCHANGED <<gameLine, exromLine, chip, chipStartAddress, chipSize, rom,
                   blendedIn, lastBlendedIn, loads>>
    /\ UNCHANGED viaVars

\* the loop of loadFromBuffer over the slots i .. 63, reading buf from pos on;
\* acc holds the three arrays as assigned so far
RECURSIVE loadChips(_, _, _, _)
loadChips(buf, pos, i, acc) ==
    IF i = NumSlots THEN [acc EXCEPT !.pos = pos]
    ELSE LET start == read16(buf, pos)
             size  == read16(buf, pos + 2)
         IN  loadChips(buf,
                       IF size > 0 THEN pos + 4 + size ELSE pos + 4,
                       i + 1,
                       [acc EXCEPT !.chipStartAddress[i] = start,
                                   !.chipSize[i] = size,
                                   !.chip[i] = IF size > 0
                                               THEN Buf(readBlock(buf, pos + 4, size))
                                               ELSE NULL])

\* the fields loadFromBuffer assigns from buf, and the position it ends at,
\* in a cartridge whose chip arrays are old before the call
loadFromBuffer(buf, old) ==
    LET chips == loadChips(buf, 3, 0, old)
        p1 == chips.pos
        p2 == p1 + RomSize
        p3 == p2 + NumBlocks
    IN  [gameLine |-> read8(buf, 1) # 0,
         exromLine |-> read8(buf, 2) # 0,
         chip |-> chips.chip,
         chipStartAddress |-> chips.chipStartAddress,
         chipSize |-> chips.chipSize,
         rom |-> [a \in RomIdx |-> buf[p1 + a]],
         blendedIn |-> [b \in Blocks |-> buf[p2 + b]],
         lastBlendedIn |-> read8(buf, p3),
         pos |-> p3 + 1]

\* the assignments of a loadFromBuffer call and its closing assertion
Restore(new, op) ==
    /\ gameLine' = new.gameLine
    /\ exromLine' = new.exromLine
    /\ chip' = new.chip
    /\ chipStartAddress' = new.chipStartAddress
    /\ chipSize' = new.chipSize
    /\ rom' = new.rom
    /\ blendedIn' = new.blendedIn
    /\ lastBlendedIn' = new.lastBlendedIn
    /\ fault' = IF new.pos - 1 = stateSize(new.chipSize) THEN "none" ELSE "assert"
    /\ last' = Call(op, 0, 0, 0, new.pos - 1)
    /\ did' = Nothing

\* loadFromBuffer on the cartridge the snapshot was taken from
LoadFromBuffer ==
    /\ fault = "none"
    /\ buffer # << >>
    /\ Restore(loadFromBuffer(buffer, [pos |-> 3, chip |-> chip,
                                       chipStartAddress |-> chipStartAddress,
                                       chipSize |-> chipSize]),
               "loadFromBuffer")
    /\ UNCHANGED <<buffer, saved, loads>>
    /\ UNCHANGED viaVars

\* makeCartridgeWithBuffer: loadFromBuffer on a newly constructed cartridge,
\* which takes the place of the old one
MakeCartridgeWithBuffer ==
    /\ fault = "none"
    /\ buffer # << >>
    /\ Restore(loadFromBuffer(buffer, [pos |-> 3, chip |-> [i \in Slots |-> NULL],
                                       chipStartAddress |-> [i \in Slots |-> 0],
                                       chipSize |-> [i \in Slots |-> 0]]),
               "makeCartridgeWithBuffer")
    /\ UNCHANGED <<buffer, saved, loads>>
    /\ UNCHANGED viaVars

\* the snapshot subsystem drops the buffer
ReleaseBuffer ==
    /\ fault = "none"
    /\ buffer # << >>
    /\ buffer' = << >>
    /\ saved' = << >>
    /\ last' = Call("release", 0, 0, 0, 0)
    /\ did' = Nothing
    /\ UNCHANGED <<gameLine, exromLine, chip, chipStartAddress, chipSize, rom,
                   blendedIn, lastBlendedIn, fault, loads>>
    /\ UNCHANGED viaVars

CartNext ==
    \/ \E nr \in ChipIndices, p \in ChipPlacements :
          LoadChip(nr, p[1], p[2], ChipData(loads + 1, p[2]))
    \/ \E nr \in ChipIndices : BankIn(nr)
    \/ \E nr \in ChipIndices : BankOut(nr)
    \/ Powerup
    \/ \E value \in BOOLEAN : SetGameLine(value)
    \/ \E value \in BOOLEAN : SetExromLine(value)

\* loadChip, bankIn, bankOut, powerup and the two line setters
CartSpec == CartInit /\ [][CartNext]_vars

\* Snapshots are taken and restored while the cartridge is otherwise
\* quiescent: no other call is made while a snapshot buffer is held.
\* the chip packets of the snapshot runs: an empty chip, one block, an
\* unaligned chip, and two blocks and a byte
SnapPlacements ==
    { <<RomBase, 0>>,
      <<RomBase, BlockSize>>,
      <<RomBase + 1, BlockSize>>,
      <<RomBase, 2 * BlockSize + 1>> }

SnapNext ==
    \/ \E nr \in ChipIndices, p \in SnapPlacements :
          buffer = << >> /\ LoadChip(nr, p[1], p[2], ChipData(loads + 1, p[2]))
    \/ \E nr \in ChipIndices : buffer = << >> /\ BankIn(nr)
    \/ \E nr \in ChipIndices : buffer = << >> /\ BankOut(nr)
    \/ buffer = << >> /\ Powerup
    \/ \E value \in BOOLEAN : buffer = << >> /\ SetGameLine(value)
    \/ \E value \in BOOLEAN : buffer = << >> /\ SetExromLine(value)
    \/ SaveToBuffer
    \/ LoadFromBuffer
    \/ MakeCartridgeWithBuffer
    \/ ReleaseBuffer

SnapSpec == CartInit /\ [][SnapNext]_vars

\* ================================================================ claims
\* the condition under which the specification says loadChip fails
Rejected(start, size) == start < RomBase \/ start + size > AddrMax
\* the blocks that contain at least one address of [start, start + size)
Covered(start, size) ==
    { b \in Blocks : \E a \in start .. (start + size - 1) : a \div BlockSize = b }
\* the blocks start >> 12 up to but excluding (start + size) >> 12
ChipBlocks(start, size) ==
    { b \in Blocks : start \div BlockSize <= b /\ b < (start + size) \div BlockSize }
Populated(i) == ~ chip[i].null
IsLoad == last.op \in {"loadFromBuffer", "makeCartridgeWithBuffer"}

\* C1 (as stated): after loadChip(i) with start < 0x8000 or
\* start + size > 0xFFFF, slot i is unpopulated, also when slot i held a chip
\* before the call.
C1_RejectedSlotIsEmpty ==
    (last.op = "loadChip" /\ Rejected(last.start, last.size))
        => ~ Populated(last.nr)

\* C1 (amended): loadChip(i) with start < 0x8000 or start + size > 0xFFFF
\* leaves slot i as it was before the call (unpopulated if it was unpopulated,
\* still holding its previous chip otherwise) and leaves the data, start
\* address and size of every other slot unchanged.
C1_RejectedLoadChangesNoSlot ==
    [][ (last'.op = "loadChip" /\ Rejected(last'.start, last'.size))
            => /\ chip' = chip
               /\ chipStartAddress' = chipStartAddress
               /\ chipSize' = chipSize ]_vars

\* C1 witness: a rejected loadChip on a slot that holds a chip
C1_Witness ==
    /\ last.op = "loadChip"
    /\ Rejected(last.start, last.size)
    /\ Populated(last.nr)

C3_SecondBankInIsNoOp ==
    [][ (last'.op = "bankIn" /\ last'.follows)
            => /\ ~ did'.copied
               /\ did'.wrote = {}
               /\ rom' = rom
               /\ blendedIn' = blendedIn
               /\ lastBlendedIn' = lastBlendedIn ]_vars

\* C3 witness: the second of two consecutive bankIn calls on a chip that
\* covers at least one block
C3_Witness ==
    /\ last.op = "bankIn"
    /\ last.follows
    /\ lastBlendedIn = last.nr
    /\ ChipBlocks(last.start, last.size) # {}
    /\ \A b \in ChipBlocks(last.start, last.size) : blendedIn[b] = 1

\* C4 (as stated): bankIn(i) on a populated chip with i != lastBlendedIn
\* flags every block that [start, start + size) covers fully or partially,
\* and sets lastBlendedIn to i.
C4_CoveredBlocksAreFlagged ==
    (last.op = "bankIn" /\ did.copied)
        => /\ \A b \in Covered(last.start, last.size) : blendedIn[b] = 1
           /\ lastBlendedIn = last.nr

\* C5: bankIn(i) with i != lastBlendedIn makes rom[start - 0x8000 ..
\* start - 0x8000 + size) equal to the chip's bytes and leaves every other
\* rom byte, and every blendedIn flag outside the chip's block range,
\* unchanged.
C5_BankInFrame ==
    [][ (last'.op = "bankIn" /\ lastBlendedIn # last'.nr) =>
          LET nr    == last'.nr
              start == chipStartAddress[nr]
              size  == chipSize[nr]
              off   == start - RomBase
          IN  /\ did'.copied
              /\ \A a \in RomIdx :
                    rom'[a] = IF off <= a /\ a < off + size
                              THEN chip[nr].bytes[a - off + 1]
                              ELSE rom[a]
              /\ \A b \in Blocks \ ChipBlocks(start, size) :
                    blendedIn'[b] = blendedIn[b] ]_vars

\* C5 witness: a copying bankIn that left a stale byte of another chip in rom
\* and a flag set outside its own block range
C5_Witness ==
    /\ last.op = "bankIn"
    /\ did.copied
    /\ last.size > 0
    /\ \E a \in RomIdx :
          /\ ~ (last.start - RomBase <= a /\ a < last.start - RomBase + last.size)
          /\ rom[a] # 0
    /\ \E b \in Blocks \ ChipBlocks(last.start, last.size) : blendedIn[b] = 1

\* C6 (as stated): bankIn(i) then bankOut(i): every flag the bankIn wrote to
\* 1 is 0 afterwards, and bankOut changes no flag outside that set.
C6_BankOutClearsWhatBankInSet ==
    [][ (last'.op = "bankOut" /\ last'.follows)
            => /\ \A b \in did.wrote : blendedIn'[b] = 0
               /\ \A b \in Blocks \ did.wrote : blendedIn'[b] = blendedIn[b] ]_vars

\* C7: bankOut(i) changes nothing but blendedIn flags: rom, lastBlendedIn,
\* gameLine, exromLine and all chip slots are as before the call.
C7_BankOutFrame ==
    [][ last'.op = "bankOut"
            => /\ rom' = rom
               /\ lastBlendedIn' = lastBlendedIn
               /\ gameLine' = gameLine
               /\ exromLine' = exromLine
               /\ chip' = chip
               /\ chipStartAddress' = chipStartAddress
               /\ chipSize' = chipSize ]_vars

\* C7 witness: a bankOut that cleared flags of the chip banked in last, with
\* chip bytes in rom and both lines changed from their initial value
C7_Witness ==
    /\ last.op = "bankOut"
    /\ did.wrote # {}
    /\ lastBlendedIn = last.nr
    /\ \E a \in RomIdx : rom[a] # 0
    /\ ~ gameLine
    /\ ~ exromLine
    /\ \A b \in did.wrote : blendedIn[b] = 0

\* C8: after any sequence of loadChip, bankIn, bankOut and powerup every
\* populated chip has start >= 0x8000 and start + size <= 0xFFFF, so the
\* range assertion of bankIn / bankOut holds, the copy stays inside rom, and
\* no call has failed.
C8_ChipsInRange ==
    /\ fault = "none"
    /\ \A i \in Slots :
          Populated(i) =>
             /\ chipStartAddress[i] >= RomBase
             /\ chipStartAddress[i] + chipSize[i] <= AddrMax
             /\ AddrMax - chipStartAddress[i] >= chipSize[i]
             /\ chipStartAddress[i] - RomBase + chipSize[i] <= RomSize

\* C8 witness: a chip that ends at the highest accepted address has been
\* copied into rom
C8_Witness ==
    /\ last.op = "bankIn"
    /\ did.copied
    /\ last.start + last.size = AddrMax
    /\ last.size > 0

\* C9 (as stated): saveToBuffer followed by loadFromBuffer of the bytes
\* written reproduces gameLine, exromLine, every slot's populated status,
\* data, start address and size, rom, blendedIn and lastBlendedIn.
C9_RoundTrip ==
    IsLoad => cartState = saved

\* the snapshot length the specification gives for the current chip sizes
RECURSIVE ChipBytes(_)
ChipBytes(i) == IF i = NumSlots THEN 0 ELSE chipSize[i] + ChipBytes(i + 1)
SnapshotLength == 2 + 4 * NumSlots + ChipBytes(0) + RomSize + NumBlocks + 1

freeRunMode1(s) == GET_BIT(s.acr, 6)

\* The steps of executeTimer1() in their order: the reload from the latch,
\* the decrement, and what the call does when it finds the counter at zero:
\* the time-out (flag, PB7 toggle, and the reload request in free-running
\* mode), the fired marker, and the PB7 timer output.
reloadTimer1(s) ==
    IF VIAReloadA2 \in s.delay
    THEN [s EXCEPT !.t1 = HI_LO(Timer1Bits, s.t1_latch_hi, s.t1_latch_lo)]
    ELSE s
countTimer1(s) ==
    IF VIACountA1 \in s.delay THEN [s EXCEPT !.t1 = Dec16(Timer1Bits, s.t1)] ELSE s
timeOut1(s) ==
    IF VIAPostOneShotA0 \notin s.feed
    THEN [s EXCEPT !.ifr = SET_BIT(s.ifr, 6),
                   !.pb7toggle = ~ s.pb7toggle,
                   !.delay = IF freeRunMode1(s)
                             THEN s.delay \cup { VIAReloadA0 }
                             ELSE s.delay]
    ELSE s
markFired1(s) == [s EXCEPT !.feed = s.feed \cup { VIAPostOneShotA0 }]
timerOut1(s) == IF GET_BIT(s.acr, 7) THEN [s EXCEPT !.pb7timerOut = s.pb7toggle] ELSE s
zeroTimer1(s) ==
    IF s.t1 = 0
    THEN [s |-> timerOut1(markFired1(timeOut1(s))),
          fired |-> VIAPostOneShotA0 \notin s.feed, zero |-> TRUE]
    ELSE [s |-> s, fired |-> FALSE, zero |-> FALSE]

\* executeTimer1(): s is the chip; the result holds the chip afterwards,
\* whether the call set IFR bit 6 and inverted pb7toggle, and whether it
\* found the counter at zero
executeTimer1(s) == zeroTimer1(countTimer1(reloadTimer1(s)))

\* The steps of executeTimer2(): the decrement, and the time-out when the
\* counter is zero and the fired marker is not in delay.
countTimer2(s) ==
    IF VIACountB1 \in s.delay THEN [s EXCEPT !.t2 = Dec16(Timer2Bits, s.t2)] ELSE s
zeroTimer2(s) ==
    IF s.t2 = 0 /\ VIAPostOneShotB0 \notin s.delay
    THEN [s |-> [s EXCEPT !.ifr = SET_BIT(s.ifr, 5),
                          !.feed = s.feed \cup { VIAPostOneShotB0 }],
          fired |-> TRUE, zero |-> TRUE]
    ELSE [s |-> s, fired |-> FALSE, zero |-> s.t2 = 0]

\* executeTimer2(): the result holds the chip afterwards, whether the call
\* set IFR bit 5, and whether it found the counter at zero
executeTimer2(s) == zeroTimer2(countTimer2(s))

\* "if (ifr & ier) delay |= VIAInterrupt0"
interruptCondition(s) ==
    IF AND8(s.ifr, s.ier) # 0
    THEN [s EXCEPT !.delay = s.delay \cup { VIAInterrupt0 }]
    ELSE s
\* the interrupt request taken in the cycle that finds the condition
interruptRequest_NoDelay(s) == VIAInterrupt0 \in s.delay
\* "if (delay & VIAInterrupt1)": execute() pulls the IRQ line down
interruptRequest(s) == VIAInterrupt1 \in s.delay
\* CA2 and CB2 are set or cleared if requested
controlOut(s) ==
    [s EXCEPT !.ca2_out = IF VIAClearCA2out1 \in s.delay THEN FALSE
                          ELSE IF VIASetCA2out1 \in s.delay THEN TRUE
                          ELSE s.ca2_out,
              !.cb2_out = IF VIAClearCB2out1 \in s.delay THEN FALSE
                          ELSE IF VIASetCB2out1 \in s.delay THEN TRUE
                          ELSE s.cb2_out]
\* "delay = ((delay << 1) & VIAClearBits) | feed"
movePipeline(s) ==
    [s EXCEPT !.delay = (ShiftLeft(s.delay) \cap VIAClearBits) \cup s.feed]
\* execute() after the two timers: r1 and r2 are their results, s the chip
\* with the interrupt condition recorded in delay
executeRest(r1, r2, s) ==
    [s |-> movePipeline(controlOut(s)), pull |-> interruptRequest(s),
     t1 |-> r1, t2 |-> r2, cond |-> AND8(r2.s.ifr, r2.s.ier) # 0]
executeTimers(r1, r2) == executeRest(r1, r2, interruptCondition(r2.s))
executeFrom(r1) == executeTimers(r1, executeTimer2(r1.s))

\* execute(): timer 1, timer 2, the interrupt condition, the interrupt
\* request, CA2 / CB2, and the move of the pipeline.  pull: the call pulled
\* the IRQ line down; cond: it found "ifr & ier" to be non-zero.
execute(s) == executeFrom(executeTimer1(s))

\* the observation of one execute() call
Stepped(h, r, s) ==
    [h EXCEPT
       !.t1 = IF h.t1.kind = "none" THEN h.t1
              ELSE IF h.t1.kind # T1Kind(s) THEN NoLoad
              ELSE [kind |-> h.t1.kind,
                    left |-> Max(h.t1.left - 1, 0),
                    zeros |-> IF h.t1.kind = "free"
                              THEN Count(h.t1.zeros, r.t1.zero) ELSE 0,
                    fires |-> Count(h.t1.fires, r.t1.fired),
                    toggles |-> Count(h.t1.toggles, r.s.pb7toggle # s.pb7toggle)],
       !.t2 = IF h.t2.kind = "none" THEN h.t2
              ELSE IF h.t2.kind # T2Kind(s) THEN NoLoad
              ELSE [kind |-> h.t2.kind,
                    left |-> Max(h.t2.left - 1, 0),
                    zeros |-> IF h.t2.kind = "timed"
                              THEN Count(h.t2.zeros, r.t2.zero) ELSE 0,
                    fires |-> Count(h.t2.fires, r.t2.fired),
                    toggles |-> 0],
       !.cycles = Min(@ + 1, MaxCycles),
       !.holds = @ \/ r.pull,
       !.cond = r.cond,
       !.script = Follow(@, Step("execute", 0, 0))]

\* an execute() call of chip v with the result r
Run(v, r) ==
    /\ via' = [via EXCEPT ![v] = r.s]
    /\ irqLine' = IF r.pull THEN pullDownIrqLine(irqLine, SrcVIA) ELSE irqLine
    /\ vlast' = VCall(v, "execute", 0, 0, 0,
                      IF r.pull THEN << PullVIA >> ELSE << >>)
    /\ hist' = [hist EXCEPT ![v] = Stepped(hist[v], r, via[v])]
    /\ UNCHANGED cartVars

Execute(v) == Run(v, execute(via[v]))

\* ============================================================ VIA: poke
\* clearInterruptFlag_CA2 / CA1 / SR / CB2 / CB1 / T2 / T1: IFR bits 0 .. 6
clearInterruptFlag_CA2(s) == [s EXCEPT !.ifr = CLR_BIT(s.ifr, 0)]
clearInterruptFlag_CA1(s) == [s EXCEPT !.ifr = CLR_BIT(s.ifr, 1)]
clearInterruptFlag_SR(s) == [s EXCEPT !.ifr = CLR_BIT(s.ifr, 2)]
clearInterruptFlag_CB2(s) == [s EXCEPT !.ifr = CLR_BIT(s.ifr, 3)]
clearInterruptFlag_CB1(s) == [s EXCEPT !.ifr = CLR_BIT(s.ifr, 4)]
clearInterruptFlag_T2(s) == [s EXCEPT !.ifr = CLR_BIT(s.ifr, 5)]
clearInterruptFlag_T1(s) == [s EXCEPT !.ifr = CLR_BIT(s.ifr, 6)]

\* the CA2 and CB2 control modes: PCR bits 1-3 and PCR bits 5-7
ca2Mode(s) == (s.pcr \div 2) % 8
cb2Mode(s) == (s.pcr \div 32) % 8
\* an access to the port register clears the CA2 / CB2 flag in the input
\* modes with register clearance (0, 2) and in the handshake and pulse
\* output modes (4, 5)
shouldClearCA2onRead(s) == ca2Mode(s) \in { 0, 2, 4, 5 }
shouldClearCA2onWrite(s) == ca2Mode(s) \in { 0, 2, 4, 5 }
shouldClearCB2onWrite(s) == cb2Mode(s) \in { 0, 2, 4, 5 }
\* inputLatchingEnabledA(): ACR bit 0
inputLatchingEnabledA(s) == GET_BIT(s.acr, 0)

\* what the port pins are driven to from outside the chip.  Port A: 0xFF on
\* both chips.  Port B of VIA1: the serial bus lines; port B of VIA2: the
\* sync and light barrier sensors.  x holds what the collaborators answer.
portAexternal(k, x) == 255
portBexternal(k, x) ==
    IF k = 1
    THEN AND8((IF x.atn THEN 0 ELSE 128) + (IF x.clock THEN 0 ELSE 4)
              + (IF x.data THEN 0 ELSE 1), 159)
    ELSE OR8((IF x.sync THEN 0 ELSE 128) + (IF x.barrier THEN 0 ELSE 16), 111)
\* (internal & ddr) | (external & ~ddr)
portValue(internal, external, ddr) ==
    OR8(AND8(internal, ddr), AND8(external, NOT8(ddr)))

\* a result of a call on a chip: the chip afterwards, the returned byte, and
\* the calls made on the collaborators in their order
Res(s, ret, calls) == [s |-> s, ret |-> ret, calls |-> calls]

updatePA(k, s, x) ==
    Res([s EXCEPT !.pa = portValue(s.ora, portAexternal(k, x), s.ddra)], 0, << >>)

\* VIA1::updatePB and VIA2::updatePB; the latter drives the drive mechanics
\* VIA2::updatePB() with the two directions of the stepper motor exchanged
updatePB_Reversed(k, s, x) ==
    LET oldPb == s.pb
        pb == portValue(s.orb, portBexternal(k, x), s.ddrb)
        t == [s EXCEPT !.pb = pb]
        zone == IF AND8(pb, 96) # AND8(oldPb, 96) THEN << "setZone" >> ELSE << >>
        led == IF GET_BIT(pb, 3) # GET_BIT(oldPb, 3) THEN << "setRedLED" >> ELSE << >>
        rot == IF GET_BIT(pb, 2) # GET_BIT(oldPb, 2) THEN << "setRotating" >> ELSE << >>
        head == IF AND8(pb, 3) = AND8(oldPb, 3) THEN << >>
                ELSE IF AND8(pb, 3) = AND8(oldPb + 1, 3) THEN << "moveHeadDown" >>
                ELSE IF AND8(pb, 3) = AND8(oldPb + 255, 3) THEN << "moveHeadUp" >>
                ELSE << "warn" >>
    IN  IF k = 1 THEN Res(t, 0, << >>) ELSE Res(t, 0, zone \o led \o rot \o head)

updatePB(k, s, x) ==
    LET oldPb == s.pb
        pb == portValue(s.orb, portBexternal(k, x), s.ddrb)
        t == [s EXCEPT !.pb = pb]
        zone == IF AND8(pb, 96) # AND8(oldPb, 96) THEN << "setZone" >> ELSE << >>
        led == IF GET_BIT(pb, 3) # GET_BIT(oldPb, 3) THEN << "setRedLED" >> ELSE << >>
        rot == IF GET_BIT(pb, 2) # GET_BIT(oldPb, 2) THEN << "setRotating" >> ELSE << >>
        head == IF AND8(pb, 3) = AND8(oldPb, 3) THEN << >>
                ELSE IF AND8(pb, 3) = AND8(oldPb + 1, 3) THEN << "moveHeadUp" >>
                ELSE IF AND8(pb, 3) = AND8(oldPb + 255, 3) THEN << "moveHeadDown" >>
                ELSE << "warn" >>
    IN  IF k = 1 THEN Res(t, 0, << >>) ELSE Res(t, 0, zone \o led \o rot \o head)

\* IRQ(): pull the line down if an enabled flag is set, release it otherwise
IRQ(s) == IF AND8(s.ifr, s.ier) # 0 THEN << PullVIA >> ELSE << ReleaseVIA >>

\* "ifr &= ~value" written as an assignment of the value
pokeIFR_Assigns(ifr, value) == AND8(value, 127)
\* "ifr &= ~value"
pokeIFR(ifr, value) == AND8(ifr, NOT8(value))

\* the IER write without the final "ier &= 0x7F"
pokeIER_KeepsBit7(ier, value) ==
    IF GET_BIT(value, 7) THEN OR8(ier, value) ELSE AND8(ier, NOT8(value))
\* the IER write that sets the bits whatever bit 7 of the value says
pokeIER_AlwaysSets(ier, value) == AND8(OR8(ier, value), 127)
\* "if (value & 0x80) ier |= value; else ier &= ~value;  ier &= 0x7F;"
pokeIER(ier, value) ==
    AND8(IF GET_BIT(value, 7) THEN OR8(ier, value) ELSE AND8(ier, NOT8(value)), 127)

\* VIA6522::poke(addr, value) on the chip of kind k
poke(k, s, addr, value, x) ==
    CASE addr = 0 ->
           LET a == clearInterruptFlag_CB1(s)
           IN  Res(IF shouldClearCB2onWrite(a) THEN clearInterruptFlag_CB2(a) ELSE a,
                   0, << >>)
      [] addr \in { 1, 15 } ->
           LET a == clearInterruptFlag_CA1(s)
           IN  Res(IF shouldClearCA2onWrite(a) THEN clearInterruptFlag_CA2(a) ELSE a,
                   0, << >>)
      [] addr = 2 -> updatePB(k, [s EXCEPT !.ddrb = value], x)
      [] addr = 3 -> updatePA(k, [s EXCEPT !.ddra = value], x)
      [] addr = 4 -> Res([s EXCEPT !.t1_latch_lo = LoOf(Timer1Bits, value)], 0, << >>)
      [] addr = 5 ->
           LET a == [s EXCEPT !.t1_latch_hi = HiOf(value)]
               b == [a EXCEPT !.t1 = HI_LO(Timer1Bits, a.t1_latch_hi, a.t1_latch_lo)]
               c == clearInterruptFlag_T1(b)
           IN  Res([c EXCEPT !.feed = c.feed \ { VIAPostOneShotA0 },
                             !.delay = c.delay \ { VIACountA1 }], 0, << >>)
      [] addr = 6 -> Res([s EXCEPT !.t1_latch_lo = LoOf(Timer1Bits, value)], 0, << >>)
      [] addr = 7 -> Res([s EXCEPT !.t1_latch_hi = HiOf(value)], 0, << >>)
      [] addr = 8 ->
           Res(clearInterruptFlag_T2([s EXCEPT !.t2_latch_lo = LoOf(Timer2Bits, value)]),
               0, << ReleaseVIA >>)
      [] addr = 9 ->
           LET a == clearInterruptFlag_T2([s EXCEPT !.t2 = HI_LO(Timer2Bits, value, s.t2_latch_lo)])
           IN  Res([a EXCEPT !.feed = a.feed \ { VIAPostOneShotB0 }], 0, << >>)
      [] addr = 10 -> Res([clearInterruptFlag_SR(s) EXCEPT !.sr = value], 0, << >>)
      [] addr = 11 ->
           LET a == [s EXCEPT !.acr = value]
               b == IF GET_BIT(value, 5)
                    THEN [a EXCEPT !.delay = a.delay \ { VIACountB0 },
                                   !.feed = a.feed \ { VIACountB0 }]
                    ELSE [a EXCEPT !.delay = a.delay \cup { VIACountB0 },
                                   !.feed = a.feed \cup { VIACountB0 }]
           IN  Res(IF GET_BIT(value, 7) THEN [b EXCEPT !.pb7timerOut = b.pb7toggle]
                   ELSE b, 0, << >>)
      [] addr = 12 -> Res([s EXCEPT !.pcr = value], 0, << >>)
      [] addr = 13 ->
           LET a == [s EXCEPT !.ifr = pokeIFR(s.ifr, value)]
           IN  Res(a, 0, IRQ(a))
      [] addr = 14 ->
           LET a == [s EXCEPT !.ier = pokeIER(s.ier, value)]
           IN  Res(a, 0, IRQ(a))

\* VIA1::poke and VIA2::poke
\* a write to the timer registers whose register 0x4 also loads the counter,
\* as a 6522 would do on register 0x5
pokeOf_LowOrderLoadsCounter(k, s, addr, value, x) ==
    IF addr = 4
    THEN poke(k, poke(k, s, 4, value, x).s, 5, s.t1_latch_hi, x)
    ELSE poke(k, s, addr, value, x)

pokeOf(k, s, addr, value, x) ==
    IF k = 1
    THEN CASE addr = 0 ->
                LET a == poke(k, s, addr, value, x)
                    b == updatePB(k, [a.s EXCEPT !.orb = value], x)
                IN  Res(b.s, 0, a.calls \o b.calls \o << "updateDevicePins" >>)
           [] addr \in { 1, 15 } ->
                LET a == poke(k, s, addr, value, x)
                    b == updatePA(k, [a.s EXCEPT !.ora = value], x)
                IN  Res(b.s, 0, a.calls \o b.calls)
           [] addr = 2 ->
                LET b == updatePB(k, [s EXCEPT !.ddrb = value], x)
                IN  Res(b.s, 0, b.calls \o << "updateDevicePins" >>)
           [] OTHER -> poke(k, s, addr, value, x)
    ELSE CASE addr = 0 ->
                LET a == poke(k, s, addr, value, x)
                    b == updatePB(k, [a.s EXCEPT !.orb = value], x)
                IN  Res(b.s, 0, a.calls \o b.calls)
           [] addr \in { 1, 15 } ->
                LET a == poke(k, s, addr, value, x)
                    b == updatePA(k, [a.s EXCEPT !.ora = value], x)
                IN  Res(b.s, 0, a.calls \o b.calls)
           [] addr = 3 -> Res([s EXCEPT !.ddra = value], 0, << >>)
           [] addr = 12 -> Res([s EXCEPT !.pcr = value], 0, << >>)
           [] OTHER -> poke(k, s, addr, value, x)

\* ====================================================== VIA: peek and read
\* the call record entry of a failed assert()
Abort == "abort"

\* peekORA() that only pulls CA2 low in the pulse mode, as in the handshake
\* mode
peekORA_PulseAsHandshake(k, s, x) ==
    LET a == clearInterruptFlag_CA1(s)
        m == ca2Mode(a)
        b == IF m \in { 0, 2 } THEN clearInterruptFlag_CA2(a)
             ELSE IF m \in { 4, 5 }
             THEN [clearInterruptFlag_CA2(a) EXCEPT
                     !.delay = a.delay \cup { VIAClearCA2out1 }]
             ELSE a
        c == updatePA(k, b, x)
    IN  Res(c.s, c.s.pa, c.calls)

peekORA(k, s, x) ==
    LET a == clearInterruptFlag_CA1(s)
        m == ca2Mode(a)
        b == IF m \in { 0, 2 } THEN clearInterruptFlag_CA2(a)
             ELSE IF m = 4
             THEN [clearInterruptFlag_CA2(a) EXCEPT
                     !.delay = a.delay \cup { VIAClearCA2out1 }]
             ELSE IF m = 5
             THEN [clearInterruptFlag_CA2(a) EXCEPT
                     !.delay = a.delay \cup { VIAClearCA2out1, VIASetCA2out0 }]
             ELSE a
        c == updatePA(k, b, x)
    IN  Res(c.s, c.s.pa, c.calls)

\* peekORB() that treats the handshake and pulse modes as peekORA() does
peekORB_HandshakeOnRead(k, s, x) ==
    LET a == clearInterruptFlag_CB1(s)
        m == cb2Mode(a)
        b == IF m \in { 0, 2 } THEN clearInterruptFlag_CB2(a)
             ELSE IF m \in { 4, 5 }
             THEN [clearInterruptFlag_CB2(a) EXCEPT
                     !.delay = a.delay \cup { VIAClearCB2out1 }]
             ELSE a
        c == updatePB(k, b, x)
    IN  Res(c.s, c.s.pb, c.calls)

peekORB(k, s, x) ==
    LET a == clearInterruptFlag_CB1(s)
        b == IF cb2Mode(a) \in { 0, 2 } THEN clearInterruptFlag_CB2(a) ELSE a
        c == updatePB(k, b, x)
    IN  Res(c.s, c.s.pb, c.calls)

\* VIA6522::peek(addr) on the chip of kind k
peek(k, s, addr, x) ==
    CASE addr = 0 -> peekORB(k, s, x)
      [] addr = 1 -> peekORA(k, s, x)
      [] addr = 2 -> Res(s, s.ddrb, << >>)
      [] addr = 3 -> Res(s, s.ddra, << >>)
      [] addr = 4 -> Res(clearInterruptFlag_T1(s), LO_BYTE(Timer1Bits, s.t1), << >>)
      [] addr = 5 -> Res(s, HI_BYTE(Timer1Bits, s.t1), << >>)
      [] addr = 6 -> Res(s, s.t1_latch_lo, << >>)
      [] addr = 7 -> Res(s, s.t1_latch_hi, << >>)
      [] addr = 8 -> Res(clearInterruptFlag_T2(s), LO_BYTE(Timer2Bits, s.t2), << >>)
      [] addr = 9 -> Res(s, HI_BYTE(Timer2Bits, s.t2), << >>)
      [] addr = 10 -> Res(clearInterruptFlag_SR(s), s.sr, << >>)
      [] addr = 11 -> Res(s, s.acr, << >>)
      [] addr = 12 -> Res(s, s.pcr, << >>)
      [] addr = 13 ->
           IF GET_BIT(s.ifr, 7) \/ GET_BIT(s.ier, 7)
           THEN Res(s, 0, << Abort >>)
           ELSE Res(s, OR8(s.ifr, IF AND8(s.ifr, s.ier) # 0 THEN 128 ELSE 0), << >>)
      [] addr = 14 -> Res(s, OR8(s.ier, 128), << >>)
      [] addr = 15 ->
           LET a == clearInterruptFlag_CA1(s)
           IN  Res(IF shouldClearCA2onRead(a) THEN clearInterruptFlag_CA2(a) ELSE a,
                   0, << >>)

\* the port A value VIA2 hands out: "(ddra & ora) | (~ddra & ira)" with input
\* latching, 0 and a warning without
\* a port A read that returns the input register whatever DDRA says
latchedPortA_InputsOnly(s) ==
    IF inputLatchingEnabledA(s)
    THEN Res(s, s.ira, << >>)
    ELSE Res(s, 0, << "warn" >>)

latchedPortA(s) ==
    IF inputLatchingEnabledA(s)
    THEN Res(s, OR8(AND8(s.ddra, s.ora), AND8(NOT8(s.ddra), s.ira)), << >>)
    ELSE Res(s, 0, << "warn" >>)

\* VIA1::peek and VIA2::peek
peekOf(k, s, addr, x) ==
    IF k = 1
    THEN IF addr \in { 1, 15 }
         THEN LET a == peek(k, s, addr, x)
              IN  Res(a.s, a.ret, << ReleaseATN >> \o a.calls)
         ELSE peek(k, s, addr, x)
    ELSE CASE addr = 0 ->
                LET a == peek(k, s, addr, x)
                    b == updatePB(k, a.s, x)
                IN  Res(b.s, b.s.pb, a.calls \o b.calls)
           [] addr \in { 1, 15 } ->
                LET a == peek(k, s, addr, x)
                    b == latchedPortA(a.s)
                IN  Res(a.s, b.ret, a.calls \o b.calls)
           [] OTHER -> peek(k, s, addr, x)

\* VIA6522::read(addr): registers 0x4, 0x8, 0xA - 0xD are answered here, the
\* others by peek(addr)
read(k, s, addr, x) ==
    CASE addr = 4 -> Res(s, LO_BYTE(Timer1Bits, s.t1), << >>)
      [] addr = 8 -> Res(s, LO_BYTE(Timer2Bits, s.t2), << >>)
      [] addr \in { 10, 11, 12 } -> Res(s, 0, << >>)
      [] addr = 13 ->
           Res(s, OR8(AND8(s.ifr, 127), IF AND8(s.ifr, s.ier) # 0 THEN 128 ELSE 0),
               << >>)
      [] OTHER -> peekOf(k, s, addr, x)

\* VIA1::read and VIA2::read.  The default case of VIA1::read is
\* VIA6522::read(addr), the default case of VIA2::read is VIA6522::peek(addr).
readOf(k, s, addr, x) ==
    CASE addr = 0 ->
           Res(s, portValue(s.orb, portBexternal(k, x), s.ddrb), << >>)
      [] addr \in { 1, 15 } ->
           IF k = 1
           THEN Res(s, portValue(s.ora, portAexternal(k, x), s.ddra), << >>)
           ELSE latchedPortA(s)
      [] OTHER -> IF k = 1 THEN read(k, s, addr, x) ELSE peek(k, s, addr, x)

\* setCA1(value) and setCB1(value): the IFR after the call
\* setCA1() that takes the negative edge whatever PCR bit 0 says
setCA1_NegativeEdgeOnly(s, value) ==
    LET a == IF s.ca1 /\ ~ value THEN [s EXCEPT !.ifr = OR8(s.ifr, 2)] ELSE s
    IN  [a EXCEPT !.ca1 = value]

setCA1(s, value) ==
    LET pcr0 == GET_BIT(s.pcr, 0)
        a == IF ~ pcr0 /\ s.ca1 /\ ~ value THEN [s EXCEPT !.ifr = OR8(s.ifr, 2)] ELSE s
        b == IF pcr0 /\ ~ a.ca1 /\ value THEN [a EXCEPT !.ifr = OR8(a.ifr, 2)] ELSE a
    IN  [b EXCEPT !.ca1 = value]
setCB1(s, value) ==
    LET pcr4 == GET_BIT(s.pcr, 4)
        a == IF ~ pcr4 /\ s.cb1 /\ ~ value THEN [s EXCEPT !.ifr = OR8(s.ifr, 16)] ELSE s
        b == IF pcr4 /\ ~ a.cb1 /\ value THEN [a EXCEPT !.ifr = OR8(a.ifr, 16)] ELSE a
    IN  [b EXCEPT !.cb1 = value]

\* ============================================================ VIA: actions
\* what the collaborators answer when a port is computed: the serial bus
\* lines (VIA1), the sync mark and light barrier sensors (VIA2)
Answers ==
    [atn : BOOLEAN, clock : BOOLEAN, data : BOOLEAN, sync : BOOLEAN,
     barrier : BOOLEAN]
\* all lines released, no sync mark, light barrier free
Idle == [atn |-> TRUE, clock |-> TRUE, data |-> TRUE, sync |-> FALSE,
         barrier |-> FALSE]

\* the observation of a call other than execute()
Accessed(h, op, addr, value, s, r) ==
    [h EXCEPT
       !.t1 = IF op = "poke" /\ addr = 5 THEN Loaded(T1Kind(s), r.s.t1)
              ELSE IF h.t1.left > 0 THEN NoLoad
              ELSE @,
       !.t2 = IF op = "poke" /\ addr = 9 THEN Loaded(T2Kind(s), r.s.t2) ELSE @,
       !.script = Follow(@, Step(op, addr, value)),
       !.holds = IF \E i \in DOMAIN r.calls : r.calls[i] = PullVIA THEN TRUE
                 ELSE IF \E i \in DOMAIN r.calls : r.calls[i] = ReleaseVIA THEN FALSE
                 ELSE @]

Access(v, op, addr, value, r) ==
    /\ via' = [via EXCEPT ![v] = r.s]
    /\ irqLine' = LineAfter(irqLine, r.calls)
    /\ vlast' = VCall(v, op, addr, value, r.ret, r.calls)
    /\ hist' = [hist EXCEPT ![v] = Accessed(hist[v], op, addr, value, via[v], r)]
    /\ UNCHANGED cartVars

Poke(v, addr, value, x) == Access(v, "poke", addr, value, pokeOf(v, via[v], addr, value, x))
Peek(v, addr, x) == Access(v, "peek", addr, 0, peekOf(v, via[v], addr, x))
Read(v, addr, x) == Access(v, "read", addr, 0, readOf(v, via[v], addr, x))
SetCA1(v, value) ==
    Access(v, "setCA1", 0, IF value THEN 1 ELSE 0, Res(setCA1(via[v], value), 0, << >>))
SetCB1(v, value) ==
    Access(v, "setCB1", 0, IF value THEN 1 ELSE 0, Res(setCB1(via[v], value), 0, << >>))

\* ============================================================ VIA: runs
\* One chip is exercised while the other one sits in its reset state.
Alone(v) == \A w \in VIAs \ { v } : via[w] = ViaReset

\* Timer 1: the values written to the low-order latch (0x4) and to the
\* high-order counter (0x5), the two modes written to the ACR (one-shot and
\* free-running), and the CPU clearing the T1 flag through the IFR.
T1LowValues == { 0, 1, 5 }
T1HighValues == { 0 }
T1Modes == { 0, 64 }

Timer1Next ==
    \/ Execute(1)
    \/ \E value \in T1LowValues : Poke(1, 4, value, Idle)
    \/ \E value \in T1HighValues : Poke(1, 5, value, Idle)
    \/ \E value \in T1Modes : Poke(1, 11, value, Idle)
    \/ Poke(1, 13, 64, Idle)

Timer1Spec == CartInit /\ [][Timer1Next]_vars

\* Timer 2: the values written to the low-order latch (0x8) and to the
\* high-order counter (0x9), the two modes written to the ACR (timed and
\* pulse counting), and the CPU clearing the T2 flag through the IFR.
T2LowValues == { 0, 1 }
T2HighValues == { 0, 1 }
T2Modes == { 0, 32 }

Timer2Next ==
    \/ Execute(1)
    \/ \E value \in T2LowValues : Poke(1, 8, value, Idle)
    \/ \E value \in T2HighValues : Poke(1, 9, value, Idle)
    \/ \E value \in T2Modes : Poke(1, 11, value, Idle)
    \/ Poke(1, 13, 32, Idle)

Timer2Spec == CartInit /\ [][Timer2Next]_vars

\* The interrupt line: both chips run, each for MaxCycles execute() calls.
\* The CA1 pin is the source of the interrupt flag; the CPU enables and
\* disables the CA1 interrupt through the IER and clears the flag through
\* the IFR.
IerValues == { 130, 2 }

IrqNext ==
    \/ \E v \in VIAs : hist[v].cycles < MaxCycles /\ Execute(v)
    \/ \E v \in VIAs, value \in BOOLEAN : SetCA1(v, value)
    \/ \E v \in VIAs, value \in IerValues : Poke(v, 14, value, Idle)
    \/ \E v \in VIAs : Poke(v, 13, 2, Idle)

IrqSpec == CartInit /\ [][IrqNext]_vars

\* The interrupt registers: the CA1 and CB1 pins set flags while the chip
\* runs; the CPU writes the IFR and the IER with values that have bit 7 set
\* and values that have it clear, single bits and all bits, and reads both
\* registers back.
IfrWrites == { 0, 2, 48, 127, 130, 255 }
IerWrites == { 2, 127, 130, 255 }

FlagNext ==
    \/ \E v \in VIAs : Alone(v) /\ hist[v].cycles < MaxCycles /\ Execute(v)
    \/ \E v \in VIAs, value \in BOOLEAN : Alone(v) /\ SetCA1(v, value)
    \/ \E v \in VIAs, value \in BOOLEAN : Alone(v) /\ SetCB1(v, value)
    \/ \E v \in VIAs, value \in IfrWrites : Alone(v) /\ Poke(v, 13, value, Idle)
    \/ \E v \in VIAs, value \in IerWrites : Alone(v) /\ Poke(v, 14, value, Idle)
    \/ \E v \in VIAs, addr \in { 13, 14 } : Alone(v) /\ Peek(v, addr, Idle)
    \/ \E v \in VIAs, addr \in { 13, 14 } : Alone(v) /\ Read(v, addr, Idle)

FlagSpec == CartInit /\ [][FlagNext]_vars

\* The register file: every register of either chip is read while the
\* chip runs for MaxCycles execute() calls, the CA1 pin moves, timer 2 is
\* loaded with 0 and all interrupts are enabled.
RegNext ==
    \/ \E v \in VIAs : Alone(v) /\ hist[v].cycles < MaxCycles /\ Execute(v)
    \/ \E v \in VIAs, value \in BOOLEAN : Alone(v) /\ SetCA1(v, value)
    \/ \E v \in VIAs : Alone(v) /\ Poke(v, 9, 0, Idle)
    \/ \E v \in VIAs : Alone(v) /\ Poke(v, 14, 255, Idle)
    \/ \E v \in VIAs, addr \in 0 .. 15 : Alone(v) /\ Read(v, addr, Idle)

RegSpec == CartInit /\ [][RegNext]_vars

\* The two ways to read a register: the shift register, the ACR, the PCR,
\* the direction and the output register of port B are written, and every
\* register of either chip is read through read() and through peek().
ReadSpec ==
    CartInit /\
    [][\/ \E v \in VIAs : Alone(v) /\ Poke(v, 10, 85, Idle)
       \/ \E v \in VIAs : Alone(v) /\ Poke(v, 11, 1, Idle)
       \/ \E v \in VIAs : Alone(v) /\ Poke(v, 12, 1, Idle)
       \/ \E v \in VIAs : Alone(v) /\ Poke(v, 2, 15, Idle)
       \/ \E v \in VIAs : Alone(v) /\ Poke(v, 0, 5, Idle)
       \/ \E v \in VIAs, addr \in 0 .. 15 : Alone(v) /\ Read(v, addr, Idle)
       \/ \E v \in VIAs, addr \in 0 .. 15 : Alone(v) /\ Peek(v, addr, Idle)]_vars

\* The timer 1 registers: the two latches and the counter are written
\* while the timer runs in one-shot mode and fires.
LatchNext ==
    \/ \E v \in VIAs : Alone(v) /\ Execute(v)
    \/ \E v \in VIAs : Alone(v) /\ Poke(v, 4, 0, Idle)
    \/ \E v \in VIAs, value \in { 0, 1 } : Alone(v) /\ Poke(v, 5, value, Idle)
    \/ \E v \in VIAs : Alone(v) /\ Poke(v, 6, 3, Idle)
    \/ \E v \in VIAs : Alone(v) /\ Poke(v, 7, 0, Idle)

LatchSpec == CartInit /\ [][LatchNext]_vars

\* The drive mechanics: the data direction of port B of VIA2 is written
\* (stepper bits as outputs, and the setting of the drive ROM, 0x6F), port B
\* is written with the four stepper phases and with the motor and the LED
\* on, and every register is read through peek() and through read().
HeadNext ==
    \/ \E value \in { 3, 111 } : Poke(2, 2, value, Idle)
    \/ \E value \in { 0, 1, 2, 3, 12 } : Poke(2, 0, value, Idle)
    \/ \E addr \in 0 .. 15 : Peek(2, addr, Idle)
    \/ \E addr \in 0 .. 15 : Read(2, addr, Idle)

HeadSpec == CartInit /\ [][HeadNext]_vars

\* Port A of VIA2, the byte under the read head: input latching is switched
\* on and off in the ACR, DDRA and ORA are written, and the port is read
\* through both of its registers.  The chips are fresh or restored, so that
\* the input register holds a byte.
PortANext ==
    \/ \E value \in { 0, 1 } : Poke(2, 11, value, Idle)
    \/ \E value \in { 15, 255 } : Poke(2, 3, value, Idle)
    \/ \E addr \in { 1, 15 } : Poke(2, addr, 60, Idle)
    \/ \E addr \in { 1, 15 } : Peek(2, addr, Idle)

PortASpec == RestoredInit /\ [][PortANext]_vars

\* The control pins: CA1 and CB1 are driven high and low under the four
\* settings of the two edge selection bits of the PCR, and the two flags are
\* cleared through the IFR.
PinNext ==
    \/ \E v \in VIAs, value \in BOOLEAN : Alone(v) /\ SetCA1(v, value)
    \/ \E v \in VIAs, value \in BOOLEAN : Alone(v) /\ SetCB1(v, value)
    \/ \E v \in VIAs, value \in { 0, 1, 16, 17 } : Alone(v) /\ Poke(v, 12, value, Idle)
    \/ \E v \in VIAs : Alone(v) /\ Poke(v, 13, 18, Idle)

PinSpec == CartInit /\ [][PinNext]_vars

\* no call has been made on any chip but v
Single(v) == \A w \in VIAs \ { v } : hist[w] = HistReset

\* The port reads: one chip, fresh or restored with its flags standing, has
\* its PCR written with every CA2 mode and every CB2 mode, has its two
\* ports read and runs for MaxCycles execute() calls.
DecodeNext ==
    \/ \E v \in VIAs, mode \in 0 .. 7 : Single(v) /\ Poke(v, 12, 2 * mode, Idle)
    \/ \E v \in VIAs, mode \in 0 .. 7 : Single(v) /\ Poke(v, 12, 32 * mode, Idle)
    \/ \E v \in VIAs, addr \in { 0, 1 } : Single(v) /\ Peek(v, addr, Idle)
    \/ \E v \in VIAs : Single(v) /\ hist[v].cycles < MaxCycles /\ Execute(v)

DecodeSpec == RestoredInit /\ [][DecodeNext]_vars

\* ============================================================ VIA: claims
\* C11: timer 1 in one-shot mode: once the counter has been loaded with N by
\* a write of register 0x5 and execute() has run N + 1 times, IFR bit 6 has
\* been set exactly once and pb7toggle has been inverted exactly once since
\* the load, and however many execute() calls follow without a new write of
\* register 0x5, both counts stay at one.
C11_OneShotFiresOnce ==
    \A v \in VIAs :
       hist[v].t1.kind = "oneshot" /\ hist[v].t1.left = 0
          => hist[v].t1.fires = 1 /\ hist[v].t1.toggles = 1

\* C12: timer 1 in free-running mode: every time the counter reaches zero IFR
\* bit 6 is set and pb7toggle inverted again, period after period, without
\* a further write of register 0x5.
C12_FreeRunFiresEveryPeriod ==
    \A v \in VIAs :
       hist[v].t1.kind = "free"
          => /\ hist[v].t1.fires = hist[v].t1.zeros
             /\ hist[v].t1.toggles = hist[v].t1.zeros

\* C13: after the scenario (ACR = 0x00, T1 low latch = 0x05, T1 high byte =
\* 0x00, six execute()) on a chip just reset, IFR bit 6 is set, pb7toggle
\* has been inverted exactly once and the T1 counter has wrapped to 0xFFFF.
C13_ScenarioResult ==
    \A v \in VIAs :
       hist[v].script = Len(Scenario)
          => /\ GET_BIT(via[v].ifr, 6)
             /\ hist[v].t1.toggles = 1
             /\ via[v].t1 = Pow2(Timer1Bits) - 1

\* C14: timer 2 in timed mode: after a write of register 0x9, whatever the
\* loaded value and whether or not the timer has fired before, IFR bit 5 is
\* set when the counter reaches zero, and it is set at most once until the
\* next write of register 0x9.
C14_Timer2FiresAtZero ==
    \A v \in VIAs :
       hist[v].t2.kind = "timed"
          => /\ hist[v].t2.zeros >= 1 => hist[v].t2.fires = 1
             /\ hist[v].t2.fires <= 1

\* the call that produced the state is an execute() of chip v
Executed(v) == vlast.op = "execute" /\ vlast.id = v
\* the call that produced the state made the call c on a collaborator
Called(c) == \E i \in DOMAIN vlast.calls : vlast.calls[i] = c

\* C15: an execute() of a chip pulls the IRQ line down exactly when the
\* execute() of that chip before it found "ifr & ier" to be non-zero: the
\* request takes one cycle, and an execute() that finds the condition
\* pulls the line only if the one before had found it as well.
C15_InterruptOneCycleLater ==
    [][\A v \in VIAs :
          (vlast'.op = "execute" /\ vlast'.id = v)
             => ((\E i \in DOMAIN vlast'.calls : vlast'.calls[i] = PullVIA)
                    <=> hist[v].cond)]_vars
\* an execute() finds the condition for the first time and leaves the line
\* alone; the next one pulls it down
C15_Witness ==
    \E v \in VIAs :
       /\ Executed(v) /\ Called(PullVIA)
       /\ SrcVIA \in irqLine
       /\ hist[v].cycles = 2

\* C16: the IRQ line stays pulled down while a chip has pulled it down and
\* has not released it, whatever the other chip does.
C16_LineHeldUntilOwnRelease ==
    \A v \in VIAs : hist[v].holds => SrcVIA \in irqLine

\* ---------------------------------------------------------------- C17
Poked(v, addr) == vlast.op = "poke" /\ vlast.id = v /\ vlast.addr = addr

\* C17: a write of the value v to the IFR (poke 0xD) leaves, bit by bit,
\* exactly the flags that were set before and are 0 in v: the bits that are
\* 1 in v are cleared, the others keep their value, no flag is ever set by
\* the write, and bit 7 of v has no effect.
C17_IfrWriteClears ==
    [][\A v \in VIAs :
         (vlast'.op = "poke" /\ vlast'.id = v /\ vlast'.addr = 13) =>
             \A bit \in 0 .. 7 :
                 GET_BIT(via'[v].ifr, bit) <=>
                     (GET_BIT(via[v].ifr, bit) /\ ~ GET_BIT(vlast'.value, bit))]_vars

\* the IFR has been written with 0x82 (bit 7 and the CA1 bit) and the CB1
\* flag, which is 0 in the value, is still standing
C17_Witness ==
    \E v \in VIAs : Poked(v, 13) /\ vlast.value = 130 /\ via[v].ifr = 16

\* ---------------------------------------------------------------- C18
\* C18: a write of the value v to the IER (poke 0xE) with bit 7 of v set
\* sets exactly the enable bits 0..6 that are 1 in v, with bit 7 of v clear
\* it clears exactly those bits; the other enable bits keep their value and
\* bit 7 of the stored IER is 0 afterwards.
C18_IerWriteSetsOrClears ==
    [][\A v \in VIAs :
         (vlast'.op = "poke" /\ vlast'.id = v /\ vlast'.addr = 14) =>
             /\ ~ GET_BIT(via'[v].ier, 7)
             /\ \A bit \in 0 .. 6 :
                    GET_BIT(via'[v].ier, bit) <=>
                        IF GET_BIT(vlast'.value, 7)
                        THEN GET_BIT(via[v].ier, bit) \/ GET_BIT(vlast'.value, bit)
                        ELSE GET_BIT(via[v].ier, bit) /\ ~ GET_BIT(vlast'.value, bit)]_vars

\* all interrupts were enabled and the write of 0x02 has disabled the CA1
\* interrupt alone
C18_Witness ==
    \E v \in VIAs : Poked(v, 14) /\ vlast.value = 2 /\ via[v].ier = 125

\* ---------------------------------------------------------------- C19
\* C19: bit 7 of the stored IFR and of the stored IER is 0 in every
\* reachable state, so peek(0xD) never fails its assertions; bit 7 appears
\* only in the value a read returns: for the IFR (peek and read of 0xD) it
\* is 1 exactly when IFR & IER != 0 and the other bits are the flags, for
\* the IER (peek and read of 0xE) it is always 1 and the other bits are the
\* enable bits.
C19_Bit7OnlyOnRead ==
    \A v \in VIAs :
        /\ ~ GET_BIT(via[v].ifr, 7)
        /\ ~ GET_BIT(via[v].ier, 7)
        /\ (vlast.id = v /\ vlast.op \in { "peek", "read" }) =>
               /\ ~ Called(Abort)
               /\ vlast.addr = 13 =>
                      /\ vlast.ret % 128 = via[v].ifr
                      /\ GET_BIT(vlast.ret, 7) <=>
                             \E bit \in 0 .. 6 :
                                 GET_BIT(via[v].ifr, bit) /\ GET_BIT(via[v].ier, bit)
               /\ vlast.addr = 14 =>
                      /\ vlast.ret % 128 = via[v].ier
                      /\ GET_BIT(vlast.ret, 7)

\* the IFR has been read with an enabled flag standing after a write of
\* 0xFF to the IER, and bit 7 of the byte returned is set
C19_Witness ==
    \E v \in VIAs :
        /\ vlast.id = v /\ vlast.op = "peek" /\ vlast.addr = 13
        /\ vlast.ret = 146
        /\ via[v].ifr = 18 /\ via[v].ier = 127

\* ---------------------------------------------------------------- C20
\* the calls of an access that reach another component (the CPU or the
\* floppy mechanics); a warning is a message on the log only
Collaborator(calls) == { i \in DOMAIN calls : calls[i] # "warn" }

\* C20: a read(addr) call, on either chip and at every address, leaves the
\* whole state of the chip unchanged, leaves the IRQ line unchanged and
\* calls no collaborator.
C20_ReadHasNoSideEffect ==
    [][\A v \in VIAs :
         (vlast'.op = "read" /\ vlast'.id = v) =>
             /\ via' = via
             /\ irqLine' = irqLine
             /\ Collaborator(vlast'.calls) = { }]_vars

\* ---------------------------------------------------------------- C21
Peeked(v, addr) == vlast.op = "peek" /\ vlast.id = v /\ vlast.addr = addr

\* the IFR bits a port A read clears in the CA2 mode m, and the requests it
\* puts into the pipeline
ClearedByPortA(m) == IF m \in { 0, 2, 4, 5 } THEN { 0, 1 } ELSE { 1 }
ScheduledByPortA(m) ==
    IF m = 4 THEN { VIAClearCA2out1 }
    ELSE IF m = 5 THEN { VIAClearCA2out1, VIASetCA2out0 }
    ELSE { }
\* the IFR bits a port B read clears in the CB2 mode m
ClearedByPortB(m) == IF m \in { 0, 2 } THEN { 3, 4 } ELSE { 4 }

\* C21: peek(0x1) clears the CA1 flag in every mode, the CA2 flag exactly in
\* the CA2 modes 0, 2, 4 and 5, and puts a CA2 output request into the
\* pipeline exactly in the modes 4 and 5; peek(0x0) clears the CB1 flag in
\* every mode, the CB2 flag exactly in the CB2 modes 0 and 2, and never
\* touches cb2_out or the pipeline.  No other flag changes.
C21_PortReadDecode ==
    [][\A v \in VIAs :
         /\ (vlast'.op = "peek" /\ vlast'.id = v /\ vlast'.addr = 1) =>
                /\ \A bit \in 0 .. 7 :
                       GET_BIT(via'[v].ifr, bit) <=>
                           (GET_BIT(via[v].ifr, bit)
                              /\ bit \notin ClearedByPortA((via[v].pcr \div 2) % 8))
                /\ via'[v].delay =
                       via[v].delay \cup ScheduledByPortA((via[v].pcr \div 2) % 8)
                /\ via'[v].ca2_out = via[v].ca2_out
         /\ (vlast'.op = "peek" /\ vlast'.id = v /\ vlast'.addr = 0) =>
                /\ \A bit \in 0 .. 7 :
                       GET_BIT(via'[v].ifr, bit) <=>
                           (GET_BIT(via[v].ifr, bit)
                              /\ bit \notin ClearedByPortB((via[v].pcr \div 32) % 8))
                /\ via'[v].delay = via[v].delay
                /\ via'[v].cb2_out = via[v].cb2_out]_vars

\* port B has been read in the CB2 pulse mode with the four flags standing:
\* the CB1 flag is gone, the CB2 flag and the port A flags are left
C21_Witness ==
    \E v \in VIAs :
        /\ Peeked(v, 0)
        /\ (via[v].pcr \div 32) % 8 = 5
        /\ via[v].ifr = 11

\* ---------------------------------------------------------------- C24
\* C24: in the CA2 pulse mode (PCR bits 1-3 = 5), the execute() call that
\* follows a peek(0x1) leaves ca2_out false, and the execute() call after it
\* leaves ca2_out true again.
C24_PulseOnPortARead ==
    [][\A v \in VIAs :
         (/\ Peeked(v, 1)
          /\ (via[v].pcr \div 2) % 8 = 5
          /\ vlast'.op = "execute" /\ vlast'.id = v)
         => /\ via'[v].ca2_out = FALSE
            /\ execute(via'[v]).s.ca2_out = TRUE]_vars

\* the second execute() after a read of port A in the pulse mode has run: CA2
\* is high again and the pipeline holds no CA2 request any more
C24_Witness ==
    \E v \in VIAs :
        /\ Executed(v)
        /\ hist[v].cycles = 2
        /\ (via[v].pcr \div 2) % 8 = 5
        /\ via[v].ca2_out = TRUE
        /\ via[v].ifr = 24

\* ---------------------------------------------------------------- C26
\* the transition of a pin from level was to level now is the one the PCR
\* bit selects: high to low if the bit is 0, low to high if it is 1
ActiveEdge(pcrBit, was, now) == IF pcrBit THEN ~ was /\ now ELSE was /\ ~ now

\* C26: setCA1(value) sets IFR bit 1 exactly on the edge selected by PCR bit
\* 0 and leaves the IFR alone otherwise, and ca1 is value afterwards;
\* setCB1(value) does the same with PCR bit 4, cb1 and IFR bit 4.  Neither
\* clears an IFR bit.
C26_PinEdgeSetsFlag ==
    [][\A v \in VIAs :
         /\ (vlast'.op = "setCA1" /\ vlast'.id = v) =>
                /\ via'[v].ifr =
                       IF ActiveEdge(GET_BIT(via[v].pcr, 0), via[v].ca1, vlast'.value = 1)
                       THEN OR8(via[v].ifr, 2) ELSE via[v].ifr
                /\ via'[v].ca1 = (vlast'.value = 1)
         /\ (vlast'.op = "setCB1" /\ vlast'.id = v) =>
                /\ via'[v].ifr =
                       IF ActiveEdge(GET_BIT(via[v].pcr, 4), via[v].cb1, vlast'.value = 1)
                       THEN OR8(via[v].ifr, 16) ELSE via[v].ifr
                /\ via'[v].cb1 = (vlast'.value = 1)
         /\ vlast'.op \in { "setCA1", "setCB1" } /\ vlast'.id = v =>
                \A bit \in 0 .. 7 : GET_BIT(via[v].ifr, bit) => GET_BIT(via'[v].ifr, bit)]_vars

\* CA1 has gone high with the positive edge selected: the CA1 flag stands
\* next to a CB1 flag raised before
C26_Witness ==
    \E v \in VIAs :
        /\ vlast.op = "setCA1" /\ vlast.id = v /\ vlast.value = 1
        /\ GET_BIT(via[v].pcr, 0)
        /\ via[v].ifr = 18

\* ---------------------------------------------------------------- C25
\* C25: poke(0x4, v) and poke(0x6, v) change the T1 low latch and nothing
\* else, poke(0x7, v) changes the T1 high latch and nothing else; poke(0x5, v)
\* loads the counter with v * 256 + low latch, clears IFR bit 6 and takes
\* the "already fired" marker out of the feed.
C25_Timer1Writes ==
    [][\A v \in VIAs :
         /\ (vlast'.op = "poke" /\ vlast'.id = v /\ vlast'.addr \in { 4, 6 }) =>
                via'[v] = [via[v] EXCEPT
                             !.t1_latch_lo = LoOf(Timer1Bits, vlast'.value)]
         /\ (vlast'.op = "poke" /\ vlast'.id = v /\ vlast'.addr = 7) =>
                via'[v] = [via[v] EXCEPT !.t1_latch_hi = HiOf(vlast'.value)]
         /\ (vlast'.op = "poke" /\ vlast'.id = v /\ vlast'.addr = 5) =>
                /\ via'[v].t1 =
                       HiOf(vlast'.value) * LoRange(Timer1Bits) + via[v].t1_latch_lo
                /\ via'[v].ifr = CLR_BIT(via[v].ifr, 6)
                /\ VIAPostOneShotA0 \notin via'[v].feed]_vars

\* the timer has fired and the low latch is then written through register
\* 0x6: the flag and the marker stand and the counter keeps its value
C25_Witness ==
    \E v \in VIAs :
        /\ Poked(v, 6)
        /\ vlast.value = 3
        /\ GET_BIT(via[v].ifr, 6)
        /\ VIAPostOneShotA0 \in via[v].feed
        /\ via[v].t1_latch_lo = 3
        /\ via[v].t1 # 3

\* ---------------------------------------------------------------- C22
\* how often the call c is made in a sequence of calls
Times(calls, c) == Cardinality({ i \in DOMAIN calls : calls[i] = c })

\* C22: with bits 0 and 1 of port B of VIA2 being outputs, a write to port B
\* that takes the two bits from o to n calls moveHeadUp once and
\* moveHeadDown never if n = (o + 1) mod 4, moveHeadDown once and moveHeadUp
\* never if n = (o - 1) mod 4, and neither of them if n = (o + 2) mod 4
\* (where it warns) or n = o.
C22_StepperPhases ==
    [][(/\ vlast'.op = "poke" /\ vlast'.id = 2 /\ vlast'.addr = 0
        /\ GET_BIT(via[2].ddrb, 0) /\ GET_BIT(via[2].ddrb, 1))
       => /\ Times(vlast'.calls, "moveHeadUp") =
                IF vlast'.value % 4 = (via[2].pb + 1) % 4 THEN 1 ELSE 0
          /\ Times(vlast'.calls, "moveHeadDown") =
                IF vlast'.value % 4 = (via[2].pb + 3) % 4 THEN 1 ELSE 0
          /\ Times(vlast'.calls, "warn") =
                IF vlast'.value % 4 = (via[2].pb + 2) % 4 THEN 1 ELSE 0]_vars

\* the stepper has gone from phase 0 to phase 3: the head moved down once
C22_Witness ==
    /\ Poked(2, 0)
    /\ vlast.value = 3
    /\ GET_BIT(via[2].ddrb, 0) /\ GET_BIT(via[2].ddrb, 1)
    /\ vlast.calls = << "moveHeadDown" >>

\* ---------------------------------------------------------------- C30
\* the calls that act on the drive mechanics
MechanicsSetters ==
    { "moveHeadUp", "moveHeadDown", "setZone", "setRedLED", "setRotating" }

\* C30: on VIA2 no peek(addr) and no read(addr) calls moveHeadUp,
\* moveHeadDown, setZone, setRedLED or setRotating; only poke calls do.
C30_ReadsLeaveMechanics ==
    (vlast.id = 2 /\ vlast.op \in { "peek", "read" })
        => \A i \in DOMAIN vlast.calls : vlast.calls[i] \notin MechanicsSetters

\* ---------------------------------------------------------------- C23
\* C23: a read of port A of VIA2 (peek of 0x1 or 0xF) returns 0 if input
\* latching is disabled, and otherwise the ORA bit where DDRA makes the pin
\* an output and the IRA bit where it makes it an input; the call does not
\* abort and leaves ORA, DDRA and IRA as they are.
C23_PortARead ==
    [][(vlast'.op = "peek" /\ vlast'.id = 2 /\ vlast'.addr \in { 1, 15 })
       => /\ \A bit \in 0 .. 7 :
                GET_BIT(vlast'.ret, bit) <=>
                    /\ GET_BIT(via[2].acr, 0)
                    /\ IF GET_BIT(via[2].ddra, bit) THEN GET_BIT(via[2].ora, bit)
                       ELSE GET_BIT(via[2].ira, bit)
          /\ vlast'.ret \in 0 .. 255
          /\ \A i \in DOMAIN vlast'.calls : vlast'.calls[i] # Abort
          /\ via'[2].ora = via[2].ora
          /\ via'[2].ddra = via[2].ddra
          /\ via'[2].ira = via[2].ira]_vars

\* port A is read with latching enabled, the low four pins being outputs:
\* the low nibble comes from ORA (0x3C), the high nibble from IRA (0xA5)
C23_Witness ==
    /\ Peeked(2, 15)
    /\ GET_BIT(via[2].acr, 0)
    /\ via[2].ddra = 15 /\ via[2].ora = 60 /\ via[2].ira = 165
    /\ vlast.ret = 172

\* ---------------------------------------------------------------- C27
\* C27: when bankIn(i) on a populated chip returns, every block of the
\* chip's block range, start >> 12 up to but excluding (start + size) >> 12,
\* is flagged as blended in, whatever bankIn and bankOut calls came before.
\* (loads = 1: the chip has been loaded once and no chip was loaded since,
\* so that all calls since then are bankIn, bankOut, powerup and the line
\* setters.)
C27_BankInFlagsItsBlocks ==
    [][(last'.op = "bankIn" /\ fault' = "none" /\ loads' = 1)
       => \A b \in BlockRange(last'.start, U16(last'.start + last'.size)) :
             blendedIn'[b] = 1]_vars

\* ---------------------------------------------------------------- C28
\* C28: if lastBlendedIn names a chip, its slot is populated and the rom
\* holds the chip's current bytes at the chip's place.
C28_LastBlendedInIsInRom ==
    lastBlendedIn # NoChip =>
        /\ ~ chip[lastBlendedIn].null
        /\ \A k \in 1 .. chipSize[lastBlendedIn] :
              rom[chipStartAddress[lastBlendedIn] - RomBase + k - 1]
                  = chip[lastBlendedIn].bytes[k]

\* ---------------------------------------------------------------- C29
\* C29: whenever execute() pulls the IRQ line down, IFR & IER is not zero
\* at that moment; once a write to the IFR or the IER has left IFR & IER = 0
\* and released the line, execute() does not pull it down again before an
\* enabled flag is set.
C29_PullOnlyWhileFlagged ==
    \A v \in VIAs :
        (Executed(v) /\ Called(PullVIA)) => AND8(via[v].ifr, via[v].ier) # 0

\* ---------------------------------------------------------------- C31
\* C31: on either chip and at every address, read(addr) returns the byte
\* that peek(addr) would return in the same state.
C31_ReadReturnsWhatPeekReturns ==
    [][\A v \in VIAs :
         (vlast'.op = "read" /\ vlast'.id = v) =>
             vlast'.ret = peekOf(v, via[v], vlast'.addr, Idle).ret]_vars

====
